---- MODULE Spec2Model ----
(***************************************************************************)
(* A model of maw (streaming-parquet): the concurrent reader/writer        *)
(* pipeline of src/src/pipeline.rs with and without failures, under        *)
(* fairness and on a bounded blocking pool, main and its exit code         *)
(* (main.rs), input discovery (discover.rs), the state store (state.rs),   *)
(* the CSV reader (csv_in.rs) and writer (writer_csv.rs), the batch        *)
(* aligner (coercion.rs) and the type lattice and schema unification of    *)
(* src/src/schema.rs.                                                      *)
(***************************************************************************)
EXTENDS Integers, Sequences, FiniteSets, TLC

(***************************************************************************)
(* Bounds of the model.                                                    *)
(***************************************************************************)
\* most batches one input file yields before it reaches end of file
MaxBatches == 6
\* values of --concurrency that are tried
MaxConcurrency == 1
\* most input schemas in a list of one-column schemas handed to from_schemas
MaxSchemas == 3
\* most input schemas in a list of schemas of several columns
MaxWideSchemas == 2
\* most fields in one input schema
MaxFields == 2
\* most calls of add_file, and of mark_file_processed for an added file, that
\* one ProcessingState receives
MaxCalls == 2
\* most records (the header record included) of a CSV file of one column
MaxRecords == 3
\* most records of a CSV file whose records have several fields
MaxWideRecords == 2
\* most fields of one record of a CSV file
MaxColumns == 2
\* most rows of a batch handed to the aligner
MaxRows == 2
\* threads of the runtime's pool for spawn_blocking tasks (the runtime that
\* #[tokio::main] builds allows 512)
MaxBlockingThreads == 1

(***************************************************************************)
(* Program constants.                                                      *)
(***************************************************************************)
\* mpsc::channel::<Chunk<..>>(8)
CHANNEL_CAPACITY == 8
\* CsvConfig::default().batch_size, and batch_size in spawn_readers
batch_size == 64000

\* the discovered input files, in discovery order (indices into the list)
input_files == <<"file1.csv", "file2.csv">>
Files == 1..Len(input_files)

OutputFormat == {"Csv", "Parquet"}

\* the header record of every input file: CsvReader::new reads it, and
\* records_to_batch builds one column for each of its names
input_header == <<"a", "b", "c">>

NoBatch == [file |-> 0, index |-> 0, rows |-> 0, columns |-> 0]

VARIABLES
    cli,            \* the parsed command line: out_format, concurrency
    main_pc,        \* position of process_files_concurrently
    spawn_idx,      \* next input file spawn_readers spawns a reader for
    join_idx,       \* reader handle process_files_concurrently awaits
    result,         \* what process_files_concurrently returned
    reader_pc,      \* per reader task: position in its loop
    reader_batch,   \* per reader task: the batch read and not yet sent
    batches_read,   \* per input: batches read_batch has returned so far
    rows_read,      \* per input: data records consumed from the file so far
    channel,        \* the bounded mpsc queue of batches
    senders,        \* live Sender handles (0 is tx, f is reader f's tx_clone)
    writer_pc,      \* position of the writer task
    writer_batch,   \* the batch the writer received and is writing
    headers_written, \* CsvWriter.headers_written
    output,         \* the output file: header records and data records written
    last_written,   \* per input: index of its batch the writer wrote last
    stringify_conflicts, \* Cli::stringify_conflicts, passed to from_schemas and widen_types
    reorder,        \* Cli::reorder
    schemas,        \* the input schemas handed to UnifiedSchema::from_schemas
    unified,        \* what UnifiedSchema::from_schemas returned
    widen_args,     \* the dtypes handed to widen_types
    widen_res,      \* what the calls of widen_types returned
    inputs,         \* Cli::inputs, the arguments handed to discover_inputs
    discovered,     \* what discover_inputs returned
    task_err,       \* per task (0 is the writer): the MawError its closure returned
    exit_code,      \* the exit code of the process, Running until it exits
    plan,           \* Cli::plan
    dry_run,        \* Cli::dry_run
    resume,         \* Cli::resume
    roll_by_rows,   \* Cli::roll_by_rows, None or a number of rows
    run_files,      \* ProcessingState::files, path to FileState
    state_file,     \* the state file on disk: the document and how much of it is there
    save_pc,        \* position of StateManager::save_state
    crashed,        \* the process was killed
    total_files,    \* ProcessingState::total_files
    processed_files, \* ProcessingState::processed_files
    csv_config,     \* the CsvConfig handed to CsvReader::new
    csv_file,       \* the records of the CSV input file
    csv_reader,     \* the CsvReader: its headers and its position in the file
    csv_batch,      \* what the last call of read_batch returned
    csv_rows,       \* rows of the batches read_batch has returned so far
    aligner,        \* the BatchAligner: unified schema, mapping, projection
    source_batch,   \* the batch handed to align_batch
    aligned,        \* what align_batch returned
    pool_started    \* blocking tasks that were given a thread of the pool

pipeVars == <<cli, main_pc, spawn_idx, join_idx, result, reader_pc, reader_batch,
              batches_read, rows_read, channel, senders, writer_pc,
              writer_batch, headers_written, output, last_written>>

schemaVars == <<stringify_conflicts, reorder, schemas, unified>>

widenVars == <<widen_args, widen_res>>

discoverVars == <<inputs, discovered>>

faultVars == <<task_err, exit_code>>

cliVars == <<plan, dry_run, resume, roll_by_rows>>

stateVars == <<run_files, state_file, save_pc, crashed>>

totalVars == <<total_files, processed_files>>

csvVars == <<csv_config, csv_file, csv_reader, csv_batch, csv_rows>>

alignVars == <<aligner, source_batch, aligned>>

poolVars == <<pool_started>>

extVars == <<totalVars, csvVars, alignVars, poolVars>>

\* the variables no task of the pipeline touches
restVars == <<schemaVars, widenVars, discoverVars, cliVars, stateVars, extVars>>

\* the variables the pipeline does not touch in a run without failures
otherVars == <<restVars, faultVars>>

vars == <<pipeVars, restVars, faultVars>>

\* Option::None, for the options that hold a number
None == -1

RECURSIVE SumOver(_, _)
SumOver(f, S) ==
    IF S = {} THEN 0
    ELSE LET x == CHOOSE y \in S : TRUE IN f[x] + SumOver(f, S \ {x})

\* the sequences over S of length at most n
SeqsUpTo(S, n) == UNION {[1..k -> S] : k \in 0..n}

(***************************************************************************)
(* The type lattice: TypeKind and widen_types (schema.rs).                 *)
(***************************************************************************)
TypeKind == {"Null", "Bool", "I8", "I16", "I32", "I64", "F32", "F64",
             "Utf8", "Date", "Datetime", "Binary"}

\* arrow2 DataType values: those TypeKind names, and types that fall to the
\* default arm of from_arrow_type
ArrowType == {"Null", "Boolean", "Int8", "Int16", "Int32", "Int64", "Float32",
              "Float64", "Utf8", "Binary", "Date32", "Date64", "Timestamp",
              "LargeUtf8"}

Ok(v) == [ok |-> TRUE, val |-> v]
Err(kind) == [ok |-> FALSE, val |-> kind]

from_arrow_type(dt) ==
    CASE dt = "Null" -> "Null"
      [] dt = "Boolean" -> "Bool"
      [] dt = "Int8" -> "I8"
      [] dt = "Int16" -> "I16"
      [] dt = "Int32" -> "I32"
      [] dt = "Int64" -> "I64"
      [] dt = "Float32" -> "F32"
      [] dt = "Float64" -> "F64"
      [] dt = "Utf8" -> "Utf8"
      [] dt = "Binary" -> "Binary"
      [] dt = "Date32" -> "Date"
      [] dt = "Date64" -> "Datetime"
      [] dt = "Timestamp" -> "Datetime"
      [] OTHER -> "Utf8"

to_arrow_type(t) ==
    CASE t = "Null" -> "Null"
      [] t = "Bool" -> "Boolean"
      [] t = "I8" -> "Int8"
      [] t = "I16" -> "Int16"
      [] t = "I32" -> "Int32"
      [] t = "I64" -> "Int64"
      [] t = "F32" -> "Float32"
      [] t = "F64" -> "Float64"
      [] t = "Utf8" -> "Utf8"
      [] t = "Date" -> "Date32"
      [] t = "Datetime" -> "Timestamp"
      [] t = "Binary" -> "Binary"

\* the match of widen_types, arm by arm in the order of the source
widen_match(left, right, sc) ==
    LET p == <<left, right>> IN
    CASE p \in {<<"Bool", "I8">>, <<"I8", "Bool">>} -> Ok("I8")
      [] p \in {<<"Bool", "I16">>, <<"I16", "Bool">>} -> Ok("I16")
      [] p \in {<<"Bool", "I32">>, <<"I32", "Bool">>} -> Ok("I32")
      [] p \in {<<"Bool", "I64">>, <<"I64", "Bool">>} -> Ok("I64")
      [] p \in {<<"Bool", "F32">>, <<"F32", "Bool">>} -> Ok("F32")
      [] p \in {<<"Bool", "F64">>, <<"F64", "Bool">>} -> Ok("F64")
      [] p \in {<<"I8", "I16">>, <<"I16", "I8">>} -> Ok("I16")
      [] p \in {<<"I8", "I32">>, <<"I32", "I8">>} -> Ok("I32")
      [] p \in {<<"I8", "I64">>, <<"I64", "I8">>} -> Ok("I64")
      [] p \in {<<"I16", "I32">>, <<"I32", "I16">>} -> Ok("I32")
      [] p \in {<<"I16", "I64">>, <<"I64", "I16">>} -> Ok("I64")
      [] p \in {<<"I32", "I64">>, <<"I64", "I32">>} -> Ok("I64")
      [] p \in {<<"I8", "F32">>, <<"F32", "I8">>} -> Ok("F32")
      [] p \in {<<"I8", "F64">>, <<"F64", "I8">>} -> Ok("F64")
      [] p \in {<<"I16", "F32">>, <<"F32", "I16">>} -> Ok("F32")
      [] p \in {<<"I16", "F64">>, <<"F64", "I16">>} -> Ok("F64")
      [] p \in {<<"I32", "F32">>, <<"F32", "I32">>} -> Ok("F32")
      [] p \in {<<"I32", "F64">>, <<"F64", "I32">>} -> Ok("F64")
      [] p \in {<<"I64", "F32">>, <<"F32", "I64">>} -> Ok("F64")
      [] p \in {<<"I64", "F64">>, <<"F64", "I64">>} -> Ok("F64")
      [] p \in {<<"F32", "F64">>, <<"F64", "F32">>} -> Ok("F64")
      [] p \in {<<"Date", "Datetime">>, <<"Datetime", "Date">>} -> Ok("Datetime")
      [] OTHER ->
            IF (left = "Utf8" \/ right = "Utf8") /\ sc THEN Ok("Utf8")
            ELSE IF (left = "Binary" \/ right = "Binary") /\ sc THEN Ok("Utf8")
            ELSE Err("Schema")

\* widen_types without the test of the right operand for Null
widen_types_left_null_only(left, right, sc) ==
    IF left = "Null" THEN Ok(right)
    ELSE IF left = right THEN Ok(left)
    ELSE widen_match(left, right, sc)

widen_types(left, right, sc) ==
    IF left = "Null" THEN Ok(right)
    ELSE IF right = "Null" THEN Ok(left)
    ELSE IF left = right THEN Ok(left)
    ELSE widen_match(left, right, sc)

\* widen_types(widen_types(a, b)?, c): the ? returns the inner error
widen_left_first(a, b, c, sc) ==
    LET ab == widen_types(a, b, sc)
    IN IF ab.ok THEN widen_types(ab.val, c, sc) ELSE ab

\* widen_types(a, widen_types(b, c)?)
widen_right_first(a, b, c, sc) ==
    LET bc == widen_types(b, c, sc)
    IN IF bc.ok THEN widen_types(a, bc.val, sc) ELSE bc

NoWiden == [kind |-> "none", x |-> Err("none"), y |-> Err("none")]
NoArgs == [left |-> "Null", right |-> "Null", third |-> "Null"]

WidenIdle ==
    /\ widen_args = NoArgs
    /\ widen_res = NoWiden

(***************************************************************************)
(* UnifiedSchema::from_schemas (schema.rs).                                *)
(***************************************************************************)
\* column names the input schemas use, with their UTF-8 bytes: String's Ord,
\* which sorted_columns.sort() uses, compares them byte by byte
ColumnNames == {"age", "name"}
NameBytes == [age |-> <<97, 103, 101>>, name |-> <<110, 97, 109, 101>>]

RECURSIVE BytesLess(_, _)
BytesLess(a, b) ==
    IF b = <<>> THEN FALSE
    ELSE IF a = <<>> THEN TRUE
    ELSE IF Head(a) # Head(b) THEN Head(a) < Head(b)
    ELSE BytesLess(Tail(a), Tail(b))

StrLess(a, b) == BytesLess(NameBytes[a], NameBytes[b])

EmptyMap == [n \in {} |-> "Null"]

\* the body of the inner loop, with an insert that does not widen
merge_column_overwrite(column_types, field, sc) ==
    LET type_kind == from_arrow_type(field.data_type)
    IN IF field.name \in DOMAIN column_types
       THEN Ok([column_types EXCEPT ![field.name] = type_kind])
       ELSE Ok((field.name :> type_kind) @@ column_types)

\* the body of the inner loop of from_schemas: widen the column's type with
\* the field's type, or insert the column
merge_column(column_types, field, sc) ==
    LET type_kind == from_arrow_type(field.data_type)
    IN IF field.name \in DOMAIN column_types
       THEN LET widened == widen_types(column_types[field.name], type_kind, sc)
            IN IF widened.ok
               THEN Ok([column_types EXCEPT ![field.name] = widened.val])
               ELSE widened
       ELSE Ok((field.name :> type_kind) @@ column_types)

\* for field in &schema.fields
RECURSIVE collect_fields(_, _, _)
collect_fields(fields, column_types, sc) ==
    IF fields = <<>> THEN Ok(column_types)
    ELSE LET m == merge_column(column_types, Head(fields), sc)
         IN IF m.ok THEN collect_fields(Tail(fields), m.val, sc) ELSE m

\* for schema in schemas
RECURSIVE collect_schemas(_, _, _)
collect_schemas(ss, column_types, sc) ==
    IF ss = <<>> THEN Ok(column_types)
    ELSE LET c == collect_fields(Head(ss), column_types, sc)
         IN IF c.ok THEN collect_schemas(Tail(ss), c.val, sc) ELSE c

\* column_types.keys().collect() followed by sort()
RECURSIVE sorted_columns(_)
sorted_columns(keys) ==
    IF keys = {} THEN <<>>
    ELSE LET least == CHOOSE k \in keys : \A o \in keys \ {k} : StrLess(k, o)
         IN <<least>> \o sorted_columns(keys \ {least})

NoUnified == [status |-> "none", schema |-> <<>>, type_mapping |-> EmptyMap]

from_schemas(ss, sc) ==
    LET collected == collect_schemas(ss, EmptyMap, sc)
    IN IF ~collected.ok
       THEN [status |-> "Err", schema |-> <<>>, type_mapping |-> EmptyMap]
       ELSE LET column_types == collected.val
                sorted == sorted_columns(DOMAIN column_types)
            IN [status |-> "Ok",
                schema |-> [i \in 1..Len(sorted) |->
                               [name |-> sorted[i],
                                data_type |-> to_arrow_type(column_types[sorted[i]]),
                                nullable |-> TRUE]],
                type_mapping |-> column_types]

SchemaIdle ==
    /\ stringify_conflicts = FALSE
    /\ reorder = FALSE
    /\ schemas = <<>>
    /\ unified = NoUnified

(***************************************************************************)
(* discover_inputs (discover.rs) over a small directory tree.              *)
(***************************************************************************)
\* most arguments on the command line
MaxInputs == 3

\* the components the paths of the tree are made of, with their bytes; "."
\* is Component::CurDir, every other one a Component::Normal
CompBytes ==
    [c \in {".", "-", "a.csv", "a.tsv", "b.csv", "c.parquet", "d", "d-e",
            "notes.txt", "missing.csv", "*.csv"} |->
        CASE c = "." -> <<46>>
          [] c = "-" -> <<45>>
          [] c = "a.csv" -> <<97, 46, 99, 115, 118>>
          [] c = "a.tsv" -> <<97, 46, 116, 115, 118>>
          [] c = "b.csv" -> <<98, 46, 99, 115, 118>>
          [] c = "c.parquet" -> <<99, 46, 112, 97, 114, 113, 117, 101, 116>>
          [] c = "d" -> <<100>>
          [] c = "d-e" -> <<100, 45, 101>>
          [] c = "notes.txt" -> <<110, 111, 116, 101, 115, 46, 116, 120, 116>>
          [] c = "missing.csv" -> <<109, 105, 115, 115, 105, 110, 103, 46, 99, 115, 118>>
          [] c = "*.csv" -> <<42, 46, 99, 115, 118>>]

\* the tree: the regular files and the directories below the working directory
TreeFiles == {<<"a.csv">>, <<"notes.txt">>, <<"d", "b.csv">>,
              <<"d", "c.parquet">>, <<"d", "notes.txt">>, <<"d-e", "a.tsv">>}
TreeDirs == {<<"d">>, <<"d-e">>}

\* the command-line arguments that are tried, and PathBuf::from of each
InputArgs == {"-", "a.csv", "notes.txt", "missing.csv", "d", "d-e",
              "d/b.csv", "d/*.csv"}
PathBufFrom(input) ==
    CASE input = "-" -> <<"-">>
      [] input = "a.csv" -> <<"a.csv">>
      [] input = "notes.txt" -> <<"notes.txt">>
      [] input = "missing.csv" -> <<"missing.csv">>
      [] input = "d" -> <<"d">>
      [] input = "d-e" -> <<"d-e">>
      [] input = "d/b.csv" -> <<"d", "b.csv">>
      [] input = "d/*.csv" -> <<"d", "*.csv">>

\* Path::extension: the bytes of the last component after its last dot
RECURSIVE AfterLastDot(_, _)
AfterLastDot(bytes, found) ==
    IF bytes = <<>> THEN found
    ELSE IF Head(bytes) = 46 THEN AfterLastDot(Tail(bytes), Ok(Tail(bytes)))
    ELSE AfterLastDot(Tail(bytes), found)

extension(path) ==
    LET name == CompBytes[path[Len(path)]]
    IN IF Head(name) = 46 THEN AfterLastDot(Tail(name), Err("None"))
       ELSE AfterLastDot(name, Err("None"))

\* FileFormat::from_extension
from_extension(path) ==
    LET ext == extension(path)
    IN IF ~ext.ok THEN Err("None")
       ELSE IF ext.val = <<99, 115, 118>> \/ ext.val = <<116, 115, 118>> THEN Ok("Csv")
       ELSE IF ext.val = <<112, 97, 114, 113, 117, 101, 116>> THEN Ok("Parquet")
       ELSE Err("None")

InputFile(path, format) == [path |-> path, format |-> format]

\* the entries WalkDir::new(dir) yields, in the order the directory lists them
WalkDir(dir) ==
    CASE dir = <<"d">> -> <<<<"d">>, <<"d", "c.parquet">>, <<"d", "notes.txt">>,
                            <<"d", "b.csv">>>>
      [] dir = <<"d-e">> -> <<<<"d-e">>, <<"d-e", "a.tsv">>>>

\* the entries GlobWalkerBuilder::from_patterns(".", &[pattern]) yields: the
\* walk starts at "." and the entries carry that component
GlobWalk(pattern) ==
    CASE pattern = "d/*.csv" -> <<<<".", "d", "b.csv">>>>
      [] OTHER -> <<>>

\* path.is_file(), for a path with or without the leading "."
is_file(path) ==
    \/ path \in TreeFiles
    \/ Len(path) > 1 /\ Head(path) = "." /\ Tail(path) \in TreeFiles

\* the loop of discover_directory and of discover_glob over the entries
RECURSIVE supported_files(_)
supported_files(entries) ==
    IF entries = <<>> THEN <<>>
    ELSE LET path == Head(entries)
             format == from_extension(path)
         IN (IF is_file(path) /\ format.ok
             THEN <<InputFile(path, format.val)>> ELSE <<>>)
                \o supported_files(Tail(entries))

discover_directory(dir) == supported_files(WalkDir(dir))

discover_glob(pattern) == supported_files(GlobWalk(pattern))

\* the body of the loop of discover_inputs: the files one argument adds
discover_one(input) ==
    IF input = "-" THEN <<InputFile(<<"-">>, "Csv")>>
    ELSE LET path == PathBufFrom(input)
         IN IF is_file(path)
            THEN LET format == from_extension(path)
                 IN IF format.ok THEN <<InputFile(path, format.val)>> ELSE <<>>
            ELSE IF path \in TreeDirs THEN discover_directory(path)
            ELSE discover_glob(input)

\* Component's Ord: CurDir before every Normal, Normal by its bytes
CompLess(a, b) ==
    IF a = "." THEN b # "."
    ELSE IF b = "." THEN FALSE
    ELSE BytesLess(CompBytes[a], CompBytes[b])

\* a.path.cmp(&b.path) = Less: Path's Ord compares component by component
RECURSIVE PathLess(_, _)
PathLess(a, b) ==
    IF b = <<>> THEN FALSE
    ELSE IF a = <<>> THEN TRUE
    ELSE IF Head(a) # Head(b) THEN CompLess(Head(a), Head(b))
    ELSE PathLess(Tail(a), Tail(b))

\* x placed behind the elements of the sorted list that are not greater
RECURSIVE insert_sorted(_, _)
insert_sorted(sorted, x) ==
    IF sorted = <<>> THEN <<x>>
    ELSE IF PathLess(x.path, Head(sorted).path) THEN <<x>> \o sorted
    ELSE <<Head(sorted)>> \o insert_sorted(Tail(sorted), x)

\* discovered.sort_by(|a, b| a.path.cmp(&b.path)): a stable sort
RECURSIVE sort_by(_)
sort_by(files) ==
    IF files = <<>> THEN <<>>
    ELSE insert_sorted(sort_by(SubSeq(files, 1, Len(files) - 1)), files[Len(files)])

\* discovered.dedup_by(|a, b| a.path == b.path): of consecutive elements of
\* equal path the first stays
RECURSIVE dedup_by(_)
dedup_by(files) ==
    IF Len(files) <= 1 THEN files
    ELSE LET rest == dedup_by(Tail(files))
         IN IF Head(files).path = Head(rest).path
            THEN <<Head(files)>> \o Tail(rest)
            ELSE <<Head(files)>> \o rest

\* for input in inputs { .. }
RECURSIVE collect_inputs(_)
collect_inputs(args) ==
    IF args = <<>> THEN <<>>
    ELSE discover_one(Head(args)) \o collect_inputs(Tail(args))

\* discover_inputs without the sort
discover_inputs_unsorted(args) == Ok(dedup_by(collect_inputs(args)))

\* the loop, then discovered.sort_by(..), discovered.dedup_by(..), Ok(discovered)
discover_inputs(args) == Ok(dedup_by(sort_by(collect_inputs(args))))

NoDiscovered == [ok |-> FALSE, val |-> "none"]

DiscoverIdle ==
    /\ inputs = <<>>
    /\ discovered = NoDiscovered

(***************************************************************************)
(* Pipeline::process_files_concurrently and the tasks it spawns.           *)
(* Spec covers the runs in which every read and every write succeeds.      *)
(***************************************************************************)
\* no task is spawned, nothing is read or written
TasksStart ==
    /\ spawn_idx = 1
    /\ join_idx = 1
    /\ result = "none"
    /\ reader_pc = [f \in Files |-> "unspawned"]
    /\ reader_batch = [f \in Files |-> NoBatch]
    /\ batches_read = [f \in Files |-> 0]
    /\ rows_read = [f \in Files |-> 0]
    /\ channel = <<>>
    /\ senders = {0}
    /\ writer_pc = "unspawned"
    /\ writer_batch = NoBatch
    /\ headers_written = FALSE
    /\ output = [headers |-> 0, records |-> 0, header_record |-> <<>>,
                 first_record |-> "none"]
    /\ last_written = [f \in Files |-> 0]

\* process_files_concurrently is entered
PipeStart ==
    /\ main_pc = "spawn_readers"
    /\ TasksStart

\* exit_code while the process runs
Running == -1

\* no task has failed and the process runs
\* ProcessingState::new: no file was added
TotalIdle == total_files = 0 /\ processed_files = 0

\* no CsvReader was made
NoCsvConfig == [has_headers |-> TRUE, batch_size |-> batch_size]
NoReader == [status |-> "none", headers |-> <<>>, pos |-> 0]
NoCsvBatch == [status |-> "none", columns |-> <<>>, rows |-> 0]

CsvIdle ==
    /\ csv_config = NoCsvConfig
    /\ csv_file = <<>>
    /\ csv_reader = NoReader
    /\ csv_batch = NoCsvBatch
    /\ csv_rows = 0

\* no BatchAligner was made
NoAligner == [unified_schema |-> <<>>, column_mapping |-> {},
              include_columns |-> {"none"}, exclude_columns |-> {"none"},
              stringify_conflicts |-> FALSE]
NoChunk == [columns |-> <<>>, rows |-> 0]
NoAligned == [status |-> "none", columns |-> <<>>, rows |-> 0]

AlignIdle ==
    /\ aligner = NoAligner
    /\ source_batch = NoChunk
    /\ aligned = NoAligned

\* no blocking task was given a thread of the pool
PoolIdle == pool_started = {}

ExtIdle == TotalIdle /\ CsvIdle /\ AlignIdle /\ PoolIdle

FaultIdle ==
    /\ task_err = [t \in Files \cup {0} |-> "none"]
    /\ exit_code = Running

\* the flags and options off
CliIdle ==
    /\ plan = FALSE
    /\ dry_run = FALSE
    /\ resume = FALSE
    /\ roll_by_rows = None

\* the file states of a run state, none yet
NoFiles == [p \in {} |-> 0]

\* no state file on disk
NoStateFile == [doc |-> NoFiles, written |-> "absent"]

\* no run state, no state file
StateIdle ==
    /\ run_files = NoFiles
    /\ state_file = NoStateFile
    /\ save_pc = "idle"
    /\ crashed = FALSE

\* the pipeline before it runs, in the specifications of the pure functions
PipeIdle ==
    /\ cli = [out_format |-> "Csv", concurrency |-> 1]
    /\ PipeStart
    /\ FaultIdle
    /\ ExtIdle
    /\ CliIdle
    /\ StateIdle

Init ==
    /\ cli \in [out_format : OutputFormat, concurrency : 1..MaxConcurrency]
    /\ PipeStart
    /\ SchemaIdle
    /\ WidenIdle
    /\ DiscoverIdle
    /\ FaultIdle
    /\ ExtIdle
    /\ CliIdle
    /\ StateIdle

\* one iteration of the loop of spawn_readers: clone tx, spawn the task
SpawnReader ==
    /\ main_pc = "spawn_readers"
    /\ spawn_idx <= Len(input_files)
    /\ reader_pc' = [reader_pc EXCEPT ![spawn_idx] = "read"]
    /\ senders' = senders \cup {spawn_idx}
    /\ spawn_idx' = spawn_idx + 1
    /\ UNCHANGED <<cli, main_pc, join_idx, result, reader_batch, batches_read,
                   rows_read, channel, writer_pc, writer_batch,
                   headers_written, output, last_written, otherVars>>

ReturnHandlesKeepsTx ==
    /\ main_pc = "spawn_readers"
    /\ spawn_idx > Len(input_files)
    /\ senders' = senders
    /\ main_pc' = "spawn_writer"
    /\ UNCHANGED <<cli, spawn_idx, join_idx, result, reader_pc, reader_batch,
                   batches_read, rows_read, channel, writer_pc,
                   writer_batch, headers_written, output, last_written, otherVars>>

\* spawn_readers returns the handles; its parameter tx is dropped
ReturnHandles ==
    /\ main_pc = "spawn_readers"
    /\ spawn_idx > Len(input_files)
    /\ senders' = senders \ {0}
    /\ main_pc' = "spawn_writer"
    /\ UNCHANGED <<cli, spawn_idx, join_idx, result, reader_pc, reader_batch,
                   batches_read, rows_read, channel, writer_pc,
                   writer_batch, headers_written, output, last_written, otherVars>>

\* spawn_writer: the writer task is spawned and owns rx
SpawnWriter ==
    /\ main_pc = "spawn_writer"
    /\ writer_pc' = "recv"
    /\ main_pc' = "join_readers"
    /\ UNCHANGED <<cli, spawn_idx, join_idx, result, reader_pc, reader_batch,
                   batches_read, rows_read, channel, senders,
                   writer_batch, headers_written, output, last_written, otherVars>>

\* reader.read_batch() returns Some(batch). The input files of this model hold
\* a multiple of batch_size records, so every batch is a full one; how many
\* batches a file holds (0..MaxBatches) is decided as it is read.
ReadSome(f) ==
    /\ reader_pc[f] = "read"
    /\ batches_read[f] < MaxBatches
    /\ reader_batch' = [reader_batch EXCEPT
            ![f] = [file |-> f, index |-> batches_read[f] + 1, rows |-> batch_size,
                    columns |-> Len(input_header)]]
    /\ rows_read' = [rows_read EXCEPT ![f] = @ + batch_size]
    /\ batches_read' = [batches_read EXCEPT ![f] = @ + 1]
    /\ reader_pc' = [reader_pc EXCEPT ![f] = "send"]
    /\ UNCHANGED <<cli, main_pc, spawn_idx, join_idx, result, channel, senders,
                   writer_pc, writer_batch, headers_written, output, last_written, otherVars>>

\* reader.read_batch() returns None: the loop ends, the task returns Ok(())
\* and its tx_clone is dropped
ReadNone(f) ==
    /\ reader_pc[f] = "read"
    /\ reader_pc' = [reader_pc EXCEPT ![f] = "done"]
    /\ senders' = senders \ {f}
    /\ UNCHANGED <<cli, main_pc, spawn_idx, join_idx, result, reader_batch,
                   batches_read, rows_read, channel, writer_pc,
                   writer_batch, headers_written, output, last_written, otherVars>>

\* the Receiver is dropped: the closure of the writer task has returned
rx_dropped == writer_pc \in {"done", "failed"}

\* tx_clone.blocking_send(batch): waits while the queue is full
SendBatchUnbounded(f) ==
    /\ reader_pc[f] = "send"
    /\ ~rx_dropped
    /\ channel' = Append(channel, reader_batch[f])
    /\ reader_batch' = [reader_batch EXCEPT ![f] = NoBatch]
    /\ reader_pc' = [reader_pc EXCEPT ![f] = "read"]
    /\ UNCHANGED <<cli, main_pc, spawn_idx, join_idx, result, batches_read,
                   rows_read, senders, writer_pc, writer_batch,
                   headers_written, output, last_written, otherVars>>

SendBatchLifo(f) ==
    /\ reader_pc[f] = "send"
    /\ ~rx_dropped
    /\ Len(channel) < CHANNEL_CAPACITY
    /\ channel' = <<reader_batch[f]>> \o channel
    /\ reader_batch' = [reader_batch EXCEPT ![f] = NoBatch]
    /\ reader_pc' = [reader_pc EXCEPT ![f] = "read"]
    /\ UNCHANGED <<cli, main_pc, spawn_idx, join_idx, result, batches_read,
                   rows_read, senders, writer_pc, writer_batch,
                   headers_written, output, last_written, otherVars>>

SendBatch(f) ==
    /\ reader_pc[f] = "send"
    /\ ~rx_dropped
    /\ Len(channel) < CHANNEL_CAPACITY
    /\ channel' = Append(channel, reader_batch[f])
    /\ reader_batch' = [reader_batch EXCEPT ![f] = NoBatch]
    /\ reader_pc' = [reader_pc EXCEPT ![f] = "read"]
    /\ UNCHANGED <<cli, main_pc, spawn_idx, join_idx, result, batches_read,
                   rows_read, senders, writer_pc, writer_batch,
                   headers_written, output, last_written, otherVars>>

\* rx.blocking_recv() returns Some(batch)
RecvSome ==
    /\ writer_pc = "recv"
    /\ channel # <<>>
    /\ writer_batch' = Head(channel)
    /\ channel' = Tail(channel)
    /\ writer_pc' = "write"
    /\ UNCHANGED <<cli, main_pc, spawn_idx, join_idx, result, reader_pc,
                   reader_batch, batches_read, rows_read, senders,
                   headers_written, output, last_written, otherVars>>

\* rx.blocking_recv() returns None: the queue is empty and every Sender is dropped
RecvNone ==
    /\ writer_pc = "recv"
    /\ channel = <<>>
    /\ senders = {}
    /\ writer_pc' = "finish"
    /\ UNCHANGED <<cli, main_pc, spawn_idx, join_idx, result, reader_pc,
                   reader_batch, batches_read, rows_read, channel,
                   senders, writer_batch, headers_written, output, last_written, otherVars>>

\* format!("col_{}", i + 1) for the column of index i
GenericName(i) ==
    CASE i = 0 -> "col_1"
      [] i = 1 -> "col_2"
      [] i = 2 -> "col_3"

\* CsvWriter::write_headers: the header record written for the batch
write_headers(batch) == [k \in 1..batch.columns |-> GenericName(k - 1)]

\* CsvWriter::write_batch: the header record on the first batch, then one
\* record per row of the batch. The output keeps the counts of header and
\* data records, the header record written and the kind of its first record.
CsvWriteBatch(out, hw, batch) ==
    [output |-> [headers |-> IF hw THEN out.headers ELSE out.headers + 1,
                 records |-> out.records + batch.rows,
                 header_record |-> IF hw THEN out.header_record
                                   ELSE write_headers(batch),
                 first_record |-> IF out.first_record # "none" THEN out.first_record
                                  ELSE IF ~hw THEN "header"
                                  ELSE IF batch.rows > 0 THEN "data"
                                  ELSE "none"],
     headers_written |-> TRUE]

\* ParquetWriter::write_batch: batch_to_row_groups returns no row group and
\* nothing is written
ParquetWriteBatch(out, hw, batch) ==
    [output |-> out, headers_written |-> hw]

\* writer.write_batch(&batch)? of the output format's branch
WriteBatch ==
    /\ writer_pc = "write"
    /\ LET w == IF cli.out_format = "Csv"
                THEN CsvWriteBatch(output, headers_written, writer_batch)
                ELSE ParquetWriteBatch(output, headers_written, writer_batch)
       IN /\ output' = w.output
          /\ headers_written' = w.headers_written
    /\ last_written' = [last_written EXCEPT ![writer_batch.file] = writer_batch.index]
    /\ writer_batch' = NoBatch
    /\ writer_pc' = "recv"
    /\ UNCHANGED <<cli, main_pc, spawn_idx, join_idx, result, reader_pc,
                   reader_batch, batches_read, rows_read, channel,
                   senders, otherVars>>

\* writer.finish()?; Ok(()): the writer task ends
WriterFinish ==
    /\ writer_pc = "finish"
    /\ writer_pc' = "done"
    /\ UNCHANGED <<cli, main_pc, spawn_idx, join_idx, result, reader_pc,
                   reader_batch, batches_read, rows_read, channel,
                   senders, writer_batch, headers_written, output, last_written, otherVars>>

\* for handle in reader_handles { handle.await??; }
JoinReader ==
    /\ main_pc = "join_readers"
    /\ join_idx <= Len(input_files)
    /\ reader_pc[join_idx] = "done"
    /\ join_idx' = join_idx + 1
    /\ UNCHANGED <<cli, main_pc, spawn_idx, result, reader_pc, reader_batch,
                   batches_read, rows_read, channel, senders,
                   writer_pc, writer_batch, headers_written, output, last_written, otherVars>>

\* writer_handle.await??; Ok(())
JoinWriter ==
    /\ main_pc = "join_readers"
    /\ join_idx > Len(input_files)
    /\ writer_pc = "done"
    /\ main_pc' = "done"
    /\ result' = "Ok"
    /\ UNCHANGED <<cli, spawn_idx, join_idx, reader_pc, reader_batch,
                   batches_read, rows_read, channel, senders,
                   writer_pc, writer_batch, headers_written, output, last_written, otherVars>>

(***************************************************************************)
(* Properties of the pipeline.                                             *)
(***************************************************************************)
\* the writer completes write_batch on the batch it holds
WriterWrites == writer_pc = "write" /\ writer_pc' = "recv"

\* batches in existence: held by a reader, queued, or held by the writer
ResidentBatches ==
    Cardinality({f \in Files : reader_pc[f] = "send"})
        + Len(channel)
        + (IF writer_pc = "write" THEN 1 ELSE 0)

\* C1: a run that returned success wrote as many data records to the output
\* as the input files hold together, for either output format.
C1_RowConservation ==
    (main_pc = "done" /\ result = "Ok")
        => output.records = SumOver(rows_read, Files)

\* C2: within one input the writer writes the batches in source order: every
\* batch it writes is the successor of the batch of the same input it wrote
\* last.
C2_WithinInputOrder ==
    [][WriterWrites =>
        writer_batch.index = last_written[writer_batch.file] + 1]_vars

C2_Witness ==
    /\ last_written[1] >= 2
    /\ last_written[2] >= 2
    /\ writer_pc = "write"

\* C3: the writer writes no batch of a later input before every earlier input
\* reached end of file and had all its batches written.
C3_BetweenInputsOrder ==
    [][WriterWrites =>
        \A i \in Files : i < writer_batch.file =>
            /\ reader_pc[i] = "done"
            /\ last_written[i] = batches_read[i]]_vars

\* C4: the queue never holds more than its capacity; a reader that finds the
\* queue full stays at its send, and only the writer's receive removes a batch.
C4_QueueBounded ==
    /\ [](Len(channel) <= CHANNEL_CAPACITY)
    /\ [][/\ \A f \in Files :
                (reader_pc[f] = "send" /\ Len(channel) = CHANNEL_CAPACITY)
                    => (reader_pc'[f] = "send" /\ reader_batch'[f] = reader_batch[f])
          /\ Len(channel') < Len(channel)
                    => (writer_pc = "recv" /\ writer_pc' = "write")]_vars

C4_Witness ==
    /\ Len(channel) = CHANNEL_CAPACITY
    /\ \E f \in Files : reader_pc[f] = "send"
    /\ writer_pc = "recv"

\* C5: the batches in existence never exceed concurrency + capacity + 1.
C5_ResidentBounded ==
    ResidentBatches <= cli.concurrency + CHANNEL_CAPACITY + 1

Next ==
    \/ SpawnReader
    \/ ReturnHandles
    \/ SpawnWriter
    \/ \E f \in Files : ReadSome(f)
    \/ \E f \in Files : ReadNone(f)
    \/ \E f \in Files : SendBatch(f)
    \/ RecvSome
    \/ RecvNone
    \/ WriteBatch
    \/ WriterFinish
    \/ JoinReader
    \/ JoinWriter

Spec == Init /\ [][Next]_vars

(***************************************************************************)
(* The pipeline without failures where every spawned task gets to run:     *)
(* each reader closure and the writer closure has a thread of its own, and *)
(* process_files_concurrently is polled whenever the handle it awaits is   *)
(* ready.                                                                  *)
(***************************************************************************)
InitFair ==
    /\ PipeIdle
    /\ SchemaIdle
    /\ WidenIdle
    /\ DiscoverIdle

ReaderRun(f) == ReadSome(f) \/ ReadNone(f) \/ SendBatch(f)

WriterRun == RecvSome \/ RecvNone \/ WriteBatch \/ WriterFinish

MainRun ==
    \/ SpawnReader \/ ReturnHandles \/ SpawnWriter
    \/ JoinReader \/ JoinWriter

NextFair ==
    \/ \E f \in Files : ReaderRun(f)
    \/ WriterRun
    \/ MainRun

SpecFair ==
    /\ InitFair
    /\ [][NextFair]_vars
    /\ \A f \in Files : WF_vars(ReaderRun(f))
    /\ WF_vars(WriterRun)
    /\ WF_vars(MainRun)

(***************************************************************************)
(* The pipeline with failures of read_batch and of write_batch, up to the  *)
(* exit of the process (main.rs). At most one task fails in a run.         *)
(***************************************************************************)
\* the MawError variants a failed read returns: Csv for a malformed record,
\* Io for a failed read of the file
ReadErrors == {"Csv", "Io"}

NoFailure == \A t \in Files \cup {0} : task_err[t] = "none"

InitFault ==
    /\ cli = [out_format |-> "Csv", concurrency |-> 1]
    /\ PipeStart
    /\ FaultIdle
    /\ ExtIdle
    /\ SchemaIdle
    /\ WidenIdle
    /\ DiscoverIdle
    /\ CliIdle
    /\ StateIdle

\* reader.read_batch()? returns the error: the closure of the reader task
\* returns Err(e) and its tx_clone is dropped
ReadFail(f) ==
    /\ reader_pc[f] = "read"
    /\ NoFailure
    /\ \E e \in ReadErrors : task_err' = [task_err EXCEPT ![f] = e]
    /\ reader_pc' = [reader_pc EXCEPT ![f] = "failed"]
    /\ senders' = senders \ {f}
    /\ UNCHANGED <<cli, main_pc, spawn_idx, join_idx, result, reader_batch,
                   batches_read, rows_read, channel, writer_pc, writer_batch,
                   headers_written, output, last_written, exit_code,
                   restVars>>

\* the receive side is closed and keeps no batch
SendClosedBlocks(f) ==
    /\ FALSE
    /\ UNCHANGED vars

\* tx_clone.blocking_send(batch).is_err(): the Receiver is dropped, the loop
\* breaks and the closure returns Ok(())
SendClosed(f) ==
    /\ reader_pc[f] = "send"
    /\ rx_dropped
    /\ reader_batch' = [reader_batch EXCEPT ![f] = NoBatch]
    /\ reader_pc' = [reader_pc EXCEPT ![f] = "done"]
    /\ senders' = senders \ {f}
    /\ UNCHANGED <<cli, main_pc, spawn_idx, join_idx, result, batches_read,
                   rows_read, channel, writer_pc, writer_batch,
                   headers_written, output, last_written, otherVars>>

\* writer.write_batch(&batch)? returns the error: the closure of the writer
\* task returns Err(e); rx and the batches still queued are dropped
WriteFail ==
    /\ writer_pc = "write"
    /\ NoFailure
    /\ task_err' = [task_err EXCEPT ![0] = "Io"]
    /\ writer_pc' = "failed"
    /\ writer_batch' = NoBatch
    /\ channel' = <<>>
    /\ UNCHANGED <<cli, main_pc, spawn_idx, join_idx, result, reader_pc,
                   reader_batch, batches_read, rows_read, senders,
                   headers_written, output, last_written, exit_code,
                   restVars>>

\* handle.await?? on a reader that returned Err(e): process_files_concurrently
\* returns Err(e) and joins no other task
JoinReaderErr ==
    /\ main_pc = "join_readers"
    /\ join_idx <= Len(input_files)
    /\ reader_pc[join_idx] = "failed"
    /\ result' = task_err[join_idx]
    /\ main_pc' = "done"
    /\ UNCHANGED <<cli, spawn_idx, join_idx, reader_pc, reader_batch,
                   batches_read, rows_read, channel, senders,
                   writer_pc, writer_batch, headers_written, output,
                   last_written, otherVars>>

\* writer_handle.await?? on a writer that returned Err(e)
JoinWriterErr ==
    /\ main_pc = "join_readers"
    /\ join_idx > Len(input_files)
    /\ writer_pc = "failed"
    /\ result' = task_err[0]
    /\ main_pc' = "done"
    /\ UNCHANGED <<cli, spawn_idx, join_idx, reader_pc, reader_batch,
                   batches_read, rows_read, channel, senders,
                   writer_pc, writer_batch, headers_written, output,
                   last_written, otherVars>>

\* the exit code main gives for what execute returned
exit_code_of(res) == IF res = "Ok" THEN 0 ELSE 1

\* a task that still runs when the process exits ends with it
killed_at_exit(pc) ==
    IF pc \in {"unspawned", "done", "failed"} THEN pc ELSE "killed"

\* main: match execute(cli).await { Ok(()) => Ok(()), Err(e) =>
\* std::process::exit(1) }
MainExit ==
    /\ main_pc = "done"
    /\ exit_code = Running
    /\ exit_code' = exit_code_of(result)
    /\ main_pc' = "exited"
    /\ reader_pc' = [f \in Files |-> killed_at_exit(reader_pc[f])]
    /\ writer_pc' = killed_at_exit(writer_pc)
    /\ UNCHANGED <<cli, spawn_idx, join_idx, result, reader_batch,
                   batches_read, rows_read, channel, senders, writer_batch,
                   headers_written, output, last_written, task_err,
                   restVars>>

NextFault ==
    \/ SpawnReader
    \/ ReturnHandles
    \/ SpawnWriter
    \/ \E f \in Files : ReadSome(f)
    \/ \E f \in Files : ReadNone(f)
    \/ \E f \in Files : ReadFail(f)
    \/ \E f \in Files : SendBatch(f)
    \/ \E f \in Files : SendClosed(f)
    \/ RecvSome
    \/ RecvNone
    \/ WriteBatch
    \/ WriteFail
    \/ WriterFinish
    \/ JoinReader
    \/ JoinReaderErr
    \/ JoinWriter
    \/ JoinWriterErr
    \/ MainExit

SpecFault == InitFault /\ [][NextFault]_vars

(***************************************************************************)
(* The pipeline with failures of write_batch only, and with fairness: a    *)
(* task is a thread of the blocking pool, main a task of the runtime, and  *)
(* each takes its next step when it can.                                   *)
(***************************************************************************)
ReaderStep(f) == ReadSome(f) \/ ReadNone(f) \/ SendBatch(f) \/ SendClosed(f)

WriterStep == RecvSome \/ RecvNone \/ WriteBatch \/ WriteFail \/ WriterFinish

MainStep ==
    \/ SpawnReader \/ ReturnHandles \/ SpawnWriter
    \/ JoinReader \/ JoinWriter \/ JoinWriterErr \/ MainExit

NextWriterFault ==
    \/ SpawnReader
    \/ ReturnHandles
    \/ SpawnWriter
    \/ \E f \in Files : ReadSome(f)
    \/ \E f \in Files : ReadNone(f)
    \/ \E f \in Files : SendBatch(f)
    \/ \E f \in Files : SendClosed(f)
    \/ RecvSome
    \/ RecvNone
    \/ WriteBatch
    \/ WriteFail
    \/ WriterFinish
    \/ JoinReader
    \/ JoinWriter
    \/ JoinWriterErr
    \/ MainExit

SpecWriterFault ==
    /\ InitFault
    /\ [][NextWriterFault]_vars
    /\ \A f \in Files : WF_vars(ReaderStep(f))
    /\ WF_vars(WriterStep)
    /\ WF_vars(MainStep)

(***************************************************************************)
(* ProcessingState and StateManager::save_state (state.rs), driven by      *)
(* calls with arguments of small sets, and a kill of the process at any    *)
(* point.                                                                  *)
(***************************************************************************)
\* largest offset and byte count handed to the calls
MaxOffset == 1
\* largest row-group index handed to update_file_progress
MaxRowGroup == 0

\* the path the calls are made for
StatePaths == {"file1.csv"}

Offsets == 0..MaxOffset
RowGroups == {None} \cup (0..MaxRowGroup)

\* the FileState add_file inserts
NewFileState ==
    [processed |-> FALSE, last_offset |-> None, last_row_group |-> None,
     bytes_processed |-> 0, rows_processed |-> 0]

add_file(files, path) == (path :> NewFileState) @@ files

mark_file_processed(files, path, bytes_processed, rows_processed) ==
    IF path \in DOMAIN files
    THEN [files EXCEPT ![path] = [@ EXCEPT !.processed = TRUE,
                                           !.bytes_processed = bytes_processed,
                                           !.rows_processed = rows_processed]]
    ELSE files

update_file_progress(files, path, offset, row_group) ==
    IF path \in DOMAIN files
    THEN [files EXCEPT ![path] = [@ EXCEPT !.last_offset = offset,
                                           !.last_row_group = row_group,
                                           !.bytes_processed = offset]]
    ELSE files

is_file_processed(files, path) ==
    IF path \in DOMAIN files THEN files[path].processed ELSE FALSE

\* ProcessingState::is_complete
is_complete == processed_files = total_files

InitState ==
    /\ run_files = NoFiles
    /\ state_file = NoStateFile
    /\ save_pc = "idle"
    /\ crashed = FALSE
    /\ CliIdle
    /\ cli = [out_format |-> "Csv", concurrency |-> 1]
    /\ PipeStart
    /\ FaultIdle
    /\ ExtIdle
    /\ SchemaIdle
    /\ WidenIdle
    /\ DiscoverIdle

\* state.add_file(path, format, size)
AddFile ==
    /\ ~crashed
    /\ save_pc = "idle"
    /\ total_files < MaxCalls
    /\ \E path \in StatePaths : run_files' = add_file(run_files, path)
    /\ total_files' = total_files + 1
    /\ UNCHANGED <<state_file, save_pc, crashed, processed_files, pipeVars,
                   schemaVars, widenVars, discoverVars, cliVars, faultVars,
                   csvVars, alignVars, poolVars>>

\* state.mark_file_processed(path, bytes_processed, rows_processed)
MarkFileProcessed ==
    /\ ~crashed
    /\ save_pc = "idle"
    /\ processed_files < MaxCalls
    /\ \E path \in StatePaths, bytes \in Offsets, rows \in {0, batch_size} :
          /\ run_files' = mark_file_processed(run_files, path, bytes, rows)
          /\ processed_files' = IF path \in DOMAIN run_files
                                THEN processed_files + 1
                                ELSE processed_files
    /\ UNCHANGED <<state_file, save_pc, crashed, total_files, pipeVars,
                   schemaVars, widenVars, discoverVars, cliVars, faultVars,
                   csvVars, alignVars, poolVars>>

\* state.update_file_progress(path, offset, row_group)
UpdateFileProgress ==
    /\ ~crashed
    /\ save_pc = "idle"
    /\ \E path \in StatePaths, offset \in Offsets, row_group \in RowGroups :
          run_files' = update_file_progress(run_files, path, offset, row_group)
    /\ UNCHANGED <<state_file, save_pc, crashed, pipeVars, schemaVars,
                   widenVars, discoverVars, cliVars, faultVars, extVars>>

\* save_state: the state is serialised, and fs::write opens the state file
\* with truncation: the file is empty
SaveTruncate ==
    /\ ~crashed
    /\ save_pc = "idle"
    /\ state_file' = [doc |-> run_files, written |-> "empty"]
    /\ save_pc' = "writing"
    /\ UNCHANGED <<run_files, crashed, pipeVars, schemaVars, widenVars,
                   discoverVars, cliVars, faultVars, extVars>>

\* fs::write, write_all: a write call stores a part of the document
SaveWritePart ==
    /\ ~crashed
    /\ save_pc = "writing"
    /\ state_file.written = "empty"
    /\ state_file' = [state_file EXCEPT !.written = "partial"]
    /\ UNCHANGED <<run_files, save_pc, crashed, pipeVars, schemaVars,
                   widenVars, discoverVars, cliVars, faultVars, extVars>>

\* fs::write, write_all: a write call stores the rest of the document, and
\* save_state returns Ok(())
SaveWriteRest ==
    /\ ~crashed
    /\ save_pc = "writing"
    /\ state_file' = [state_file EXCEPT !.written = "complete"]
    /\ save_pc' = "idle"
    /\ UNCHANGED <<run_files, crashed, pipeVars, schemaVars, widenVars,
                   discoverVars, cliVars, faultVars, extVars>>

\* the process is killed
Crash ==
    /\ ~crashed
    /\ crashed' = TRUE
    /\ UNCHANGED <<run_files, state_file, save_pc, pipeVars, schemaVars,
                   widenVars, discoverVars, cliVars, faultVars, extVars>>

NextState ==
    \/ AddFile
    \/ MarkFileProcessed
    \/ UpdateFileProgress
    \/ SaveTruncate
    \/ SaveWritePart
    \/ SaveWriteRest
    \/ Crash

SpecState == InitState /\ [][NextState]_vars

(***************************************************************************)
(* The pipeline of a resumed run: --resume with a state file that an       *)
(* earlier run stored, and --roll-by-rows. The input files are as the      *)
(* state file recorded them (same path, size and modification time).       *)
(***************************************************************************)
\* the values of --roll-by-rows that are tried
RollRows == {batch_size, 2 * batch_size}

\* the inputs the stored state marks as processed, in the states tried
StoredProcessed == {{1}, {1, 2}}

\* the document an earlier run stored: a FileState for every input file
StoredFiles(done) ==
    [p \in {input_files[f] : f \in Files} |->
        [NewFileState EXCEPT
            !.processed = \E f \in done : input_files[f] = p]]

InitOptions ==
    /\ cli = [out_format |-> "Csv", concurrency |-> 1]
    /\ PipeStart
    /\ FaultIdle
    /\ ExtIdle
    /\ plan = FALSE
    /\ dry_run = FALSE
    /\ resume = TRUE
    /\ roll_by_rows \in RollRows
    /\ run_files = NoFiles
    /\ \E done \in StoredProcessed :
          state_file = [doc |-> StoredFiles(done), written |-> "complete"]
    /\ save_pc = "idle"
    /\ crashed = FALSE
    /\ SchemaIdle
    /\ WidenIdle
    /\ DiscoverIdle

\* Pipeline::execute reads neither cli.resume, cli.state nor
\* cli.roll_by_rows: the run takes the steps of every other run
NextOptions == Next

SpecOptions == InitOptions /\ [][NextOptions]_vars

(***************************************************************************)
(* main and execute (main.rs) up to the start of the pipeline's tasks, for *)
(* lists of arguments over the directory tree of discover_inputs.          *)
(***************************************************************************)
InitMain ==
    /\ inputs \in SeqsUpTo(InputArgs, MaxInputs) \ {<<>>}
    /\ plan \in BOOLEAN
    /\ dry_run \in BOOLEAN
    /\ resume = FALSE
    /\ roll_by_rows = None
    /\ discovered = NoDiscovered
    /\ cli = [out_format |-> "Csv", concurrency |-> 1]
    /\ main_pc = "execute"
    /\ TasksStart
    /\ FaultIdle
    /\ ExtIdle
    /\ StateIdle
    /\ SchemaIdle
    /\ WidenIdle

\* execute: if cli.plan { .. return Ok(()) }
ExecutePlan ==
    /\ main_pc = "execute"
    /\ plan
    /\ result' = "Ok"
    /\ main_pc' = "done"
    /\ UNCHANGED <<cli, spawn_idx, join_idx, reader_pc, reader_batch,
                   batches_read, rows_read, channel, senders,
                   writer_pc, writer_batch, headers_written, output,
                   last_written, otherVars>>

\* execute: if cli.dry_run { .. return Ok(()) }
ExecuteDryRun ==
    /\ main_pc = "execute"
    /\ ~plan
    /\ dry_run
    /\ result' = "Ok"
    /\ main_pc' = "done"
    /\ UNCHANGED <<cli, spawn_idx, join_idx, reader_pc, reader_batch,
                   batches_read, rows_read, channel, senders,
                   writer_pc, writer_batch, headers_written, output,
                   last_written, otherVars>>

\* Pipeline::new(cli).execute(): discover_inputs, Err(InvalidInput) when it
\* found no file, else process_files_concurrently is entered (its steps are
\* those of Spec and SpecFault)
PipelineExecute ==
    /\ main_pc = "execute"
    /\ ~plan
    /\ ~dry_run
    /\ discovered' = discover_inputs(inputs)
    /\ IF discovered'.val = <<>>
       THEN result' = "InvalidInput" /\ main_pc' = "done"
       ELSE result' = result /\ main_pc' = "spawn_readers"
    /\ UNCHANGED <<cli, spawn_idx, join_idx, reader_pc, reader_batch,
                   batches_read, rows_read, channel, senders,
                   writer_pc, writer_batch, headers_written, output,
                   last_written, inputs, schemaVars, widenVars, cliVars,
                   stateVars, faultVars, extVars>>

NextMain ==
    \/ ExecutePlan
    \/ ExecuteDryRun
    \/ PipelineExecute
    \/ MainExit

SpecMain == InitMain /\ [][NextMain]_vars

(***************************************************************************)
(* widen_types applied to dtypes of the closed set.                        *)
(***************************************************************************)
InitWiden ==
    /\ widen_args \in [left : TypeKind, right : TypeKind, third : TypeKind]
    /\ widen_res = NoWiden
    /\ stringify_conflicts \in BOOLEAN
    /\ reorder = FALSE
    /\ schemas = <<>>
    /\ unified = NoUnified
    /\ PipeIdle
    /\ DiscoverIdle

\* widen_types(left, right) and widen_types(right, left)
WidenPair ==
    /\ widen_res.kind = "none"
    /\ widen_res' =
          [kind |-> "pair",
           x |-> widen_types(widen_args.left, widen_args.right, stringify_conflicts),
           y |-> widen_types(widen_args.right, widen_args.left, stringify_conflicts)]
    /\ UNCHANGED <<widen_args, schemaVars, pipeVars, discoverVars, faultVars, cliVars, stateVars, extVars>>

\* widen(widen(left, right), third) and widen(left, widen(right, third))
WidenTriple ==
    /\ widen_res.kind = "none"
    /\ widen_res' =
          [kind |-> "triple",
           x |-> widen_left_first(widen_args.left, widen_args.right,
                                  widen_args.third, stringify_conflicts),
           y |-> widen_right_first(widen_args.left, widen_args.right,
                                   widen_args.third, stringify_conflicts)]
    /\ UNCHANGED <<widen_args, schemaVars, pipeVars, discoverVars, faultVars, cliVars, stateVars, extVars>>

NextWiden ==
    \/ WidenPair
    \/ WidenTriple

SpecWiden == InitWiden /\ [][NextWiden]_vars

(***************************************************************************)
(* UnifiedSchema::from_schemas applied to lists of input schemas.          *)
(***************************************************************************)
Field(n, dt) == [name |-> n, data_type |-> dt]

\* lists of one-column schemas over every arrow type
OneColumnSchemas == SeqsUpTo({<<Field("age", dt)>> : dt \in ArrowType}, MaxSchemas)

\* lists of schemas of every shape (column order, repeated and missing
\* columns, a column of two types) over three fields
WideFields == {Field("age", "Int64"), Field("age", "Utf8"), Field("name", "Utf8")}
ManyColumnSchemas == SeqsUpTo(SeqsUpTo(WideFields, MaxFields), MaxWideSchemas)

InitSchema ==
    /\ schemas \in OneColumnSchemas \cup ManyColumnSchemas
    /\ stringify_conflicts \in BOOLEAN
    /\ reorder \in BOOLEAN
    /\ unified = NoUnified
    /\ WidenIdle
    /\ PipeIdle
    /\ DiscoverIdle

\* UnifiedSchema::from_schemas(&schemas, stringify_conflicts)
CallFromSchemas ==
    /\ unified.status = "none"
    /\ unified' = from_schemas(schemas, stringify_conflicts)
    /\ UNCHANGED <<stringify_conflicts, reorder, schemas, widenVars, pipeVars, discoverVars,
                   faultVars, cliVars, stateVars, extVars>>

NextSchema == CallFromSchemas

SpecSchema == InitSchema /\ [][NextSchema]_vars

(***************************************************************************)
(* discover_inputs applied to lists of arguments.                          *)
(***************************************************************************)
InitDiscover ==
    /\ inputs \in SeqsUpTo(InputArgs, MaxInputs)
    /\ discovered = NoDiscovered
    /\ SchemaIdle
    /\ WidenIdle
    /\ PipeIdle

\* discover_inputs(&cli.inputs, &config)
CallDiscover ==
    /\ discovered = NoDiscovered
    /\ discovered' = discover_inputs(inputs)
    /\ UNCHANGED <<inputs, schemaVars, widenVars, pipeVars, faultVars, cliVars, stateVars, extVars>>

NextDiscover == CallDiscover

SpecDiscover == InitDiscover /\ [][NextDiscover]_vars

(***************************************************************************)
(* The pipeline on a runtime whose blocking pool has MaxBlockingThreads    *)
(* threads: spawn_blocking queues the closure, and a queued closure starts *)
(* when a thread of the pool is free, in the order of the spawn_blocking   *)
(* calls (the readers in input order, then the writer).                    *)
(***************************************************************************)
\* the blocking tasks: the readers, and 0 for the writer
Tasks == Files \cup {0}

\* spawn_blocking was called for the task
Spawned(t) == IF t = 0 THEN writer_pc # "unspawned" ELSE reader_pc[t] # "unspawned"

\* the closure of the task has returned
Finished(t) == IF t = 0 THEN writer_pc = "done" ELSE reader_pc[t] = "done"

\* the tasks that occupy a thread of the pool
BusyThreads == {t \in pool_started : ~Finished(t)}

\* the place of the task in the queue of the pool
QueuePosition(t) == IF t = 0 THEN Len(input_files) + 1 ELSE t

InitPool ==
    /\ cli = [out_format |-> "Csv", concurrency |-> 1]
    /\ PipeStart
    /\ pool_started = {}
    /\ task_err = [t \in Tasks |-> "none"]
    /\ exit_code = Running
    /\ TotalIdle
    /\ CsvIdle
    /\ AlignIdle
    /\ CliIdle
    /\ StateIdle
    /\ SchemaIdle
    /\ WidenIdle
    /\ DiscoverIdle

\* a thread of the pool takes the first closure of the queue
PoolStart(t) ==
    /\ Spawned(t)
    /\ t \notin pool_started
    /\ Cardinality(BusyThreads) < MaxBlockingThreads
    /\ \A u \in Tasks : (Spawned(u) /\ u \notin pool_started)
                            => QueuePosition(t) <= QueuePosition(u)
    /\ pool_started' = pool_started \cup {t}
    /\ UNCHANGED <<pipeVars, faultVars, schemaVars, widenVars, discoverVars,
                   cliVars, stateVars, totalVars, csvVars, alignVars>>

\* the steps of a reader closure that runs on a thread of the pool
PoolReader(f) ==
    /\ f \in pool_started
    /\ \/ ReadSome(f)
       \/ ReadNone(f)
       \/ SendBatch(f)

\* the steps of the writer closure that runs on a thread of the pool
PoolWriter ==
    /\ 0 \in pool_started
    /\ \/ RecvSome
       \/ RecvNone
       \/ WriteBatch
       \/ WriterFinish

\* process_files_concurrently, which runs on a worker thread of the runtime
PoolMain ==
    \/ SpawnReader
    \/ ReturnHandles
    \/ SpawnWriter
    \/ JoinReader
    \/ JoinWriter

NextPool ==
    \/ \E t \in Tasks : PoolStart(t)
    \/ \E f \in Files : PoolReader(f)
    \/ PoolWriter
    \/ PoolMain

SpecPool == InitPool /\ [][NextPool]_vars

(***************************************************************************)
(* The CSV reader (csv_in.rs): CsvReader::new, read_batch, records_to_batch *)
(* and create_column_array, over small files.                              *)
(***************************************************************************)
\* the fields of the files: an integer, a float, a boolean, a text, the
\* three NA tokens and the empty field
CsvFields == {"1", "2.5", "true", "x", "NA", "null", "\\N", ""}
\* the fields of the files whose records have several fields
PlainFields == {"1", "x"}

\* CsvConfig::default().na_values
na_values == {"NA", "null", "\\N"}

\* val.parse::<i64>().is_ok(), parse::<f64>().is_ok() and
\* parse::<bool>().is_ok() on the fields above: an integer literal is a
\* float literal too
parse_i64_ok(val) == val = "1"
parse_f64_ok(val) == val \in {"1", "2.5"}
parse_bool_ok(val) == val = "true"

\* Option<String>
SomeValue(str) == [some |-> TRUE, text |-> str]
NoValue == [some |-> FALSE, text |-> ""]

\* the files: every record list of one column, and short record lists of
\* records of one to MaxColumns fields (records of unequal lengths included)
RecordsOf(fields, width) == [1..width -> fields]
OneColumnFiles == SeqsUpTo(RecordsOf(CsvFields, 1), MaxRecords)
WideFiles ==
    SeqsUpTo(UNION {RecordsOf(PlainFields, w) : w \in 1..MaxColumns},
             MaxWideRecords)
CsvFiles == OneColumnFiles \cup WideFiles

\* the values of CsvConfig::batch_size that are tried: the default and two
\* that split the files above into several batches
BatchSizes == {1, 2, batch_size}

\* CsvReader::decode_field: the fields above are ASCII without a byte order
\* mark, which the decoder leaves as they are
decode_field(field) == field

\* CsvReader::new: the csv::Reader is built with its default has_headers =
\* true whatever config.has_headers is, so that headers() and byte_headers()
\* both consume the first record, which read_byte_record never returns
CsvReader_new(file, config) ==
    LET first_record == IF file = <<>> THEN <<>> ELSE file[1]
    IN [status |-> "open",
        headers |-> IF config.has_headers
                    THEN first_record
                    ELSE [i \in 1..Len(first_record) |-> GenericName(i - 1)],
        pos |-> IF file = <<>> THEN 0 ELSE 1]

\* create_column_array: the dtype inferred from the values of this batch, and
\* the cells of the array of that dtype
create_column_array(values) ==
    LET present == {i \in 1..Len(values) : values[i].some}
        has_ints == \E i \in present : parse_i64_ok(values[i].text)
        has_floats == \E i \in present : /\ ~parse_i64_ok(values[i].text)
                                         /\ parse_f64_ok(values[i].text)
        has_bools == \E i \in present : /\ ~parse_i64_ok(values[i].text)
                                        /\ ~parse_f64_ok(values[i].text)
                                        /\ parse_bool_ok(values[i].text)
        has_strings == \E i \in present : /\ ~parse_i64_ok(values[i].text)
                                          /\ ~parse_f64_ok(values[i].text)
                                          /\ ~parse_bool_ok(values[i].text)
        dtype == IF has_strings \/ (~has_ints /\ ~has_floats /\ ~has_bools)
                 THEN "Utf8"
                 ELSE IF has_floats THEN "Float64"
                 ELSE IF has_ints THEN "Int64"
                 ELSE "Boolean"
        parsed(val) == CASE dtype = "Utf8" -> TRUE
                         [] dtype = "Float64" -> parse_f64_ok(val)
                         [] dtype = "Int64" -> parse_i64_ok(val)
                         [] dtype = "Boolean" -> parse_bool_ok(val)
    IN [dtype |-> dtype,
        cells |-> [i \in 1..Len(values) |->
                      IF values[i].some /\ parsed(values[i].text)
                      THEN values[i]
                      ELSE NoValue]]

\* records_to_batch: one column for each header, a value for each record
records_to_batch(headers, records) ==
    [status |-> "Some",
     columns |-> [col_idx \in 1..Len(headers) |->
                    create_column_array(
                        [r \in 1..Len(records) |->
                            IF col_idx <= Len(records[r])
                            THEN LET field_str == decode_field(records[r][col_idx])
                                 IN IF field_str \in na_values
                                    THEN NoValue
                                    ELSE SomeValue(field_str)
                            ELSE NoValue])],
     rows |-> Len(records)]

\* the records the loop of read_batch reads: at most batch_size of them
RecordsRead(file, pos, size) ==
    SubSeq(file, pos + 1, IF pos + size < Len(file) THEN pos + size ELSE Len(file))

\* read_byte_record of a csv::Reader that is not flexible: a record whose
\* number of fields differs from that of the first record is an error
UnequalLengths(file, record) == Len(record) # Len(file[1])

\* CsvReader::read_batch
read_batch(reader, file, config) ==
    LET records == RecordsRead(file, reader.pos, config.batch_size)
    IN IF \E r \in 1..Len(records) : UnequalLengths(file, records[r])
       THEN [status |-> "Err", columns |-> <<>>, rows |-> 0]
       ELSE IF records = <<>>
       THEN [status |-> "None", columns |-> <<>>, rows |-> 0]
       ELSE records_to_batch(reader.headers, records)

InitCsv ==
    /\ csv_config \in [has_headers : BOOLEAN, batch_size : BatchSizes]
    /\ csv_file \in CsvFiles
    /\ csv_reader = NoReader
    /\ csv_batch = NoCsvBatch
    /\ csv_rows = 0
    /\ TotalIdle
    /\ AlignIdle
    /\ PoolIdle
    /\ cli = [out_format |-> "Csv", concurrency |-> 1]
    /\ PipeStart
    /\ task_err = [t \in Files \cup {0} |-> "none"]
    /\ exit_code = Running
    /\ CliIdle
    /\ StateIdle
    /\ SchemaIdle
    /\ WidenIdle
    /\ DiscoverIdle

\* let mut reader = CsvReader::new(&file_path, &config)?
NewCsvReader ==
    /\ csv_reader.status = "none"
    /\ csv_reader' = CsvReader_new(csv_file, csv_config)
    /\ UNCHANGED <<csv_config, csv_file, csv_batch, csv_rows, totalVars,
                   alignVars, poolVars, pipeVars, schemaVars, widenVars,
                   discoverVars, cliVars, stateVars, faultVars>>

\* reader.read_batch()?, called until it returns None or an error
ReadBatch ==
    /\ csv_reader.status = "open"
    /\ csv_batch.status \in {"none", "Some"}
    /\ csv_batch' = read_batch(csv_reader, csv_file, csv_config)
    /\ csv_rows' = csv_rows + csv_batch'.rows
    /\ csv_reader' = [csv_reader EXCEPT !.pos = @ + csv_batch'.rows]
    /\ UNCHANGED <<csv_config, csv_file, totalVars, alignVars, poolVars,
                   pipeVars, schemaVars, widenVars, discoverVars, cliVars,
                   stateVars, faultVars>>

NextCsv ==
    \/ NewCsvReader
    \/ ReadBatch

SpecCsv == InitCsv /\ [][NextCsv]_vars

(***************************************************************************)
(* The batch aligner (coercion.rs): align_batch, find_source_column,       *)
(* coerce_column and create_null_column.                                   *)
(***************************************************************************)
\* Option<Vec<String>>: None, or the set of the names of the vector
NoColumns == {"none"}

\* the dtypes a unified schema holds
UnifiedTypes == {to_arrow_type(t) : t \in TypeKind}

\* the unified schemas: no column, the column a of every dtype, and the
\* columns a and b
UnifiedSchemas ==
    {<<>>}
    \cup {<<Field("a", dt)>> : dt \in UnifiedTypes}
    \cup {<<Field("a", dt), Field("b", dtb)>> :
             dt \in UnifiedTypes, dtb \in {"Utf8", "Int64"}}

\* column_mapping, as the set of its (original, unified) entries
ColumnMappings == {{}, {<<"a", "a">>}, {<<"x", "b">>}}

\* the source batches: one column, a Utf8 column of texts and nulls or an
\* Int64 column of numbers and nulls
SourceColumns ==
    {[dtype |-> "Utf8", cells |-> c] :
        c \in SeqsUpTo({SomeValue("1"), SomeValue("x"), NoValue}, MaxRows)}
    \cup {[dtype |-> "Int64", cells |-> c] :
             c \in SeqsUpTo({SomeValue("1"), NoValue}, MaxRows)}

\* Chunk::new(arrays), and Chunk::len: the length of the first array, 0 for a
\* chunk without arrays
Chunk(arrays) ==
    [columns |-> arrays,
     rows |-> IF arrays = <<>> THEN 0 ELSE Len(arrays[1].cells)]

\* BatchAligner::find_source_column: index 0 when the name is a key or a
\* value of column_mapping
find_source_column(al, unified_name) ==
    IF \E e \in al.column_mapping : e[1] = unified_name THEN 0
    ELSE IF \E e \in al.column_mapping : e[2] = unified_name THEN 0
    ELSE None

\* BatchAligner::create_null_column
create_null_column(data_type, num_rows) ==
    Ok([dtype |-> IF data_type \in {"Utf8", "Int64", "Float64", "Boolean"}
                  THEN data_type
                  ELSE "Utf8",
        cells |-> [i \in 1..num_rows |-> NoValue]])

\* string_array.value(i).parse().ok() for the target type
parse_ok(target_type, val) ==
    CASE target_type = "Int64" -> parse_i64_ok(val)
      [] target_type = "Float64" -> parse_f64_ok(val)
      [] target_type = "Boolean" -> parse_bool_ok(val)

\* BatchAligner::coerce_column; the arms for a source type other than Utf8
\* are left out, align_batch passes Utf8 as the source type of every column
coerce_column(al, array, source_type, target_type, num_rows) ==
    IF source_type = target_type
    THEN create_null_column(target_type, num_rows)
    ELSE IF target_type \in {"Int64", "Float64", "Boolean"}
    THEN IF array.dtype # "Utf8"
         THEN Err("panic")
         ELSE Ok([dtype |-> target_type,
                  cells |-> [i \in 1..num_rows |->
                                IF /\ array.cells[i].some
                                   /\ parse_ok(target_type, array.cells[i].text)
                                THEN array.cells[i]
                                ELSE NoValue]])
    ELSE IF al.stringify_conflicts
    THEN Ok([dtype |-> "Utf8",
             cells |-> [i \in 1..num_rows |->
                           IF array.cells[i].some
                           THEN SomeValue("converted")
                           ELSE NoValue]])
    ELSE Err("Schema")

\* the include and exclude tests of align_batch
kept_by_projection(al, field) ==
    /\ al.include_columns # NoColumns => field.name \in al.include_columns
    /\ al.exclude_columns # NoColumns => field.name \notin al.exclude_columns

\* the body of the loop of align_batch for one field
aligned_array(al, batch, field) ==
    IF find_source_column(al, field.name) # None
          /\ find_source_column(al, field.name) < batch.rows
    THEN coerce_column(al, batch.columns[find_source_column(al, field.name) + 1],
                       "Utf8", field.data_type, batch.rows)
    ELSE create_null_column(field.data_type, batch.rows)

\* BatchAligner::align_batch
align_batch(al, batch) ==
    LET kept == SelectSeq(al.unified_schema,
                          LAMBDA field : kept_by_projection(al, field))
        arrays == [i \in 1..Len(kept) |-> aligned_array(al, batch, kept[i])]
    IN IF \E i \in 1..Len(kept) : ~arrays[i].ok
       THEN LET first == CHOOSE i \in 1..Len(kept) :
                            /\ ~arrays[i].ok
                            /\ \A j \in 1..(i - 1) : arrays[j].ok
            IN [status |-> arrays[first].val, columns |-> <<>>, rows |-> 0]
       ELSE LET chunk == Chunk([i \in 1..Len(kept) |-> arrays[i].val])
            IN [status |-> "Ok", columns |-> chunk.columns, rows |-> chunk.rows]

InitAlign ==
    /\ aligner \in [unified_schema : UnifiedSchemas,
                    column_mapping : ColumnMappings,
                    include_columns : {NoColumns, {"a"}},
                    exclude_columns : {NoColumns, {"b"}},
                    stringify_conflicts : BOOLEAN]
    /\ source_batch \in {Chunk(<<c>>) : c \in SourceColumns}
    /\ aligned = NoAligned
    /\ TotalIdle
    /\ CsvIdle
    /\ PoolIdle
    /\ cli = [out_format |-> "Csv", concurrency |-> 1]
    /\ PipeStart
    /\ task_err = [t \in Files \cup {0} |-> "none"]
    /\ exit_code = Running
    /\ CliIdle
    /\ StateIdle
    /\ SchemaIdle
    /\ WidenIdle
    /\ DiscoverIdle

\* aligner.align_batch(batch)
AlignBatch ==
    /\ aligned.status = "none"
    /\ aligned' = align_batch(aligner, source_batch)
    /\ UNCHANGED <<aligner, source_batch, totalVars, csvVars, poolVars,
                   pipeVars, schemaVars, widenVars, discoverVars, cliVars,
                   stateVars, faultVars>>

NextAlign == AlignBatch

SpecAlign == InitAlign /\ [][NextAlign]_vars

(***************************************************************************)
(* Properties of the type lattice and of schema unification.               *)
(***************************************************************************)
Numeric == {"I8", "I16", "I32", "I64", "F32", "F64"}

\* the pairs rules 1 to 7 of the widening table join
JoinedByRules(a, b) ==
    \/ a = "Null" \/ b = "Null"
    \/ a = b
    \/ {a, b} \subseteq Numeric \cup {"Bool"}
    \/ {a, b} = {"Date", "Datetime"}

\* C6: widen_types(a, b) and widen_types(b, a) have the same outcome.
C6_WidenCommutative ==
    widen_res.kind = "pair" => widen_res.x = widen_res.y

C6_Witness ==
    /\ widen_res.kind = "pair"
    /\ widen_args.left = "F32"
    /\ widen_args.right = "I64"
    /\ widen_res.x = Ok("F64")

\* C7: widen(widen(a, b), c) and widen(a, widen(b, c)) have the same outcome.
C7_WidenAssociative ==
    widen_res.kind = "triple" => widen_res.x = widen_res.y

\* C8: with stringify_conflicts on widen_types never fails and gives Utf8 for
\* every pair rules 1 to 7 do not join; with it off such a pair fails.
C8_StringifyTotal ==
    widen_res.kind = "pair" =>
        LET joined == JoinedByRules(widen_args.left, widen_args.right)
        IN /\ stringify_conflicts => widen_res.x.ok
           /\ (stringify_conflicts /\ ~joined) => widen_res.x = Ok("Utf8")
           /\ (~stringify_conflicts /\ ~joined) => ~widen_res.x.ok

\* C9: when from_schemas succeeds, the unified dtype of a column absorbs the
\* lifted dtype of every input field of that name: widen_types(t, u) = u.
C9_SchemaContainment ==
    unified.status = "Ok" =>
        \A i \in 1..Len(schemas) : \A j \in 1..Len(schemas[i]) :
            LET t == from_arrow_type(schemas[i][j].data_type)
                u == unified.type_mapping[schemas[i][j].name]
            IN widen_types(t, u, stringify_conflicts) = Ok(u)

C9_Witness ==
    /\ unified.status = "Ok"
    /\ Len(schemas) = 3
    /\ \A i \in 1..3 : Len(schemas[i]) = 1
    /\ schemas[1][1].data_type = "Float64"
    /\ schemas[2][1].data_type = "Int8"
    /\ schemas[3][1].data_type = "Boolean"
    /\ unified.type_mapping["age"] = "F64"

\* the fields of all schemas, in the order from_schemas walks them
RECURSIVE Flatten(_)
Flatten(ss) == IF ss = <<>> THEN <<>> ELSE Head(ss) \o Flatten(Tail(ss))

\* the column names in order of first appearance
RECURSIVE FirstAppearance(_, _)
FirstAppearance(fields, seen) ==
    IF fields = <<>> THEN <<>>
    ELSE IF Head(fields).name \in seen THEN FirstAppearance(Tail(fields), seen)
    ELSE <<Head(fields).name>>
            \o FirstAppearance(Tail(fields), seen \cup {Head(fields).name})

UnifiedNames == [i \in 1..Len(unified.schema) |-> unified.schema[i].name]

\* C10: with reorder off the unified schema lists the columns in order of
\* first appearance; they are sorted alphabetically only with reorder on.
C10_InsertionOrder ==
    (unified.status = "Ok" /\ ~reorder)
        => UnifiedNames = FirstAppearance(Flatten(schemas), {})

(***************************************************************************)
(* Properties of input discovery.                                          *)
(***************************************************************************)
\* the paths of the supported files the arguments find
RECURSIVE FoundPaths(_)
FoundPaths(args) ==
    IF args = <<>> THEN {}
    ELSE {discover_one(Head(args))[i].path : i \in 1..Len(discover_one(Head(args)))}
            \cup FoundPaths(Tail(args))

ExpectedExitCode(res) ==
    CASE res = "Ok" -> 0
      [] res \in {"InvalidInput", "Config"} -> 1
      [] res \in {"Csv", "Schema"} -> 2
      [] res = "Io" -> 3

\* C12: the exit code of the process is the code of the kind of outcome that
\* ended the run.
C12_ExitCodeByKind ==
    exit_code # Running => exit_code = ExpectedExitCode(result)

\* C13: when one reader fails on a malformed record and nothing else fails,
\* the process exits only after every other input was read to its end and
\* had all its batches written.
C13_OtherInputsComplete ==
    \A f \in Files :
        (exit_code # Running /\ task_err[f] = "Csv") =>
            \A i \in Files \ {f} :
                /\ reader_pc[i] = "done"
                /\ last_written[i] = batches_read[i]

\* C14: when the writer fails on a batch, the run ends with the writer's
\* error and a non-zero exit code, and every reader returns before that: a
\* reader waiting at its send is released.
C14_WriterFailureReleases ==
    /\ [](exit_code # Running /\ task_err[0] # "none"
            => result = task_err[0] /\ exit_code # 0)
    /\ (writer_pc = "failed") ~>
            (/\ \A f \in Files : reader_pc[f] = "done"
             /\ exit_code # Running)

\* the writer failed on its first batch with the queue full, and both
\* readers, each left with a batch it could not send, have returned
C14_Witness ==
    /\ writer_pc = "failed"
    /\ exit_code = 1
    /\ \A f \in Files : reader_pc[f] = "done" /\ last_written[f] = 0
    /\ batches_read[1] + batches_read[2] = CHANNEL_CAPACITY + 3

(***************************************************************************)
(* Properties of the state store.                                          *)
(***************************************************************************)
\* C15: after a kill of the process at any point the state file holds a
\* complete document, the one saved before or the new one (or is absent
\* when nothing was saved yet): never an empty or partly written one.
C15_AtomicCheckpoint ==
    crashed => state_file.written \in {"absent", "complete"}

\* C17: the successive values of last_offset, and of last_row_group, that
\* are recorded for one file are strictly increasing.
C17_OffsetMonotonic ==
    [][\A path \in DOMAIN run_files \cap DOMAIN run_files' :
          /\ (/\ run_files[path].last_offset # None
              /\ run_files'[path].last_offset # None
              /\ run_files'[path].last_offset # run_files[path].last_offset)
                => run_files'[path].last_offset > run_files[path].last_offset
          /\ (/\ run_files[path].last_row_group # None
              /\ run_files'[path].last_row_group # None
              /\ run_files'[path].last_row_group # run_files[path].last_row_group)
                => run_files'[path].last_row_group > run_files[path].last_row_group]_vars

\* the entries of the state's file map that are marked as processed
ProcessedEntries == {path \in DOMAIN run_files : run_files[path].processed}

\* C23: after any sequence of add_file and mark_file_processed calls,
\* is_complete() holds exactly when every added file has processed = true.
C23_CompleteIffAllProcessed ==
    is_complete <=> (ProcessedEntries = DOMAIN run_files)

\* C29: after any sequence of add_file, mark_file_processed and
\* update_file_progress calls, total_files is the number of file entries and
\* processed_files the number of entries with processed = true, so that
\* processed_files never exceeds total_files.
C29_CountersMatchEntries ==
    /\ total_files = Cardinality(DOMAIN run_files)
    /\ processed_files = Cardinality(ProcessedEntries)
    /\ processed_files <= total_files

(***************************************************************************)
(* Properties of resumed runs and of rolling.                              *)
(***************************************************************************)
\* C16: in a resumed run no reader is started for an input that the stored
\* state marks as processed, and none of its rows is read or written.
C16_ProcessedInputsSkipped ==
    \A f \in Files :
        (/\ resume
         /\ state_file.written = "complete"
         /\ is_file_processed(state_file.doc, input_files[f]))
            => /\ reader_pc[f] = "unspawned"
               /\ rows_read[f] = 0
               /\ last_written[f] = 0

\* the data rows of the files the writer created, in order: CsvWriter::new
\* opens the one output file and write_batch writes every batch to it
OutputShards == <<output.records>>

\* C18: with roll_by_rows = R a finished run leaves shards of exactly R data
\* rows, but for the last, which holds at most R.
C18_ShardsOfRRows ==
    (main_pc = "done" /\ result = "Ok" /\ roll_by_rows # None) =>
        /\ \A i \in 1..(Len(OutputShards) - 1) : OutputShards[i] = roll_by_rows
        /\ OutputShards[Len(OutputShards)] <= roll_by_rows

(***************************************************************************)
(* Properties of plan mode.                                                *)
(***************************************************************************)
\* the argument names stdin, a file or a directory of the tree, or is a
\* glob that matches a file
Resolves(input) ==
    \/ input = "-"
    \/ PathBufFrom(input) \in TreeFiles \cup TreeDirs
    \/ GlobWalk(input) # <<>>

\* C19: a run with --plan exits with code 0 only when every input resolves;
\* with an input path that does not exist it exits with a non-zero code.
C19_PlanNeedsInputs ==
    (plan /\ exit_code # Running /\ \E i \in 1..Len(inputs) : ~Resolves(inputs[i]))
        => exit_code # 0

(***************************************************************************)
(* Termination of the pipeline.                                            *)
(***************************************************************************)
\* every reader has returned at end of input, no Sender is left, the writer
\* has written every batch that was read and sent and has finished, and
\* process_files_concurrently has returned Ok(())
Terminated ==
    /\ \A f \in Files : reader_pc[f] = "done" /\ last_written[f] = batches_read[f]
    /\ senders = {}
    /\ channel = <<>>
    /\ writer_pc = "done"
    /\ output.records = rows_read[1] + rows_read[2]
    /\ main_pc = "done"
    /\ result = "Ok"

\* C28: with finite inputs, successful writes and every spawned task getting
\* to run, every run terminates: the readers reach end of input, the queue
\* closes, the writer writes every batch sent and finishes, and
\* process_files_concurrently returns success.
C28_EveryRunTerminates == <>Terminated

\* a run has terminated after both inputs yielded all their batches, more
\* than the queue holds
C28_Witness ==
    /\ Terminated
    /\ batches_read[1] = MaxBatches
    /\ batches_read[2] = MaxBatches

(***************************************************************************)
(* Properties of the pipeline on a bounded blocking pool.                  *)
(***************************************************************************)
\* every thread of the pool is held by a reader that waits in blocking_send
\* on the full queue, and the writer closure waits in the queue of the pool
WriterStarved ==
    /\ Spawned(0)
    /\ 0 \notin pool_started
    /\ Cardinality(BusyThreads) = MaxBlockingThreads
    /\ \A t \in BusyThreads : t # 0 /\ reader_pc[t] = "send"
    /\ Len(channel) = CHANNEL_CAPACITY

\* C24: readers blocked on a full queue never starve the writer: the writer
\* starts and consumes although every thread of the blocking pool is held by
\* a reader blocked on send; the run does not deadlock.
C24_WriterNotStarved == ~WriterStarved

(***************************************************************************)
(* Properties of the CSV reader.                                           *)
(***************************************************************************)
\* the records of the file the last batch was built from
BatchRecords ==
    SubSeq(csv_file, csv_reader.pos - csv_batch.rows + 1, csv_reader.pos)

\* C21: with has_headers = false the reader names the columns col_1..col_k
\* from the field count of the first record and yields every record of the
\* file as a data row: at end of input a file of n records has yielded n rows.
C21_HeaderlessYieldsAllRecords ==
    (~csv_config.has_headers /\ csv_reader.status = "open") =>
        /\ csv_file # <<>> =>
              csv_reader.headers =
                  [i \in 1..Len(csv_file[1]) |-> GenericName(i - 1)]
        /\ csv_batch.status = "None" => csv_rows = Len(csv_file)

\* the fields the default dialect reads as null
NullTokens == {"NA", "null", "\\N", ""}

\* C26: under the default dialect (a header record, the default NA tokens)
\* a field equal to NA, null, \N or the empty string is read as null
\* and is no type signal: a column whose other values all parse as integers
\* is typed integer.
C26_NullTokensAreNoTypeSignal ==
    (csv_config.has_headers /\ csv_batch.status = "Some") =>
        \A c \in 1..Len(csv_batch.columns) :
            LET rows == 1..csv_batch.rows
                others == {r \in rows : BatchRecords[r][c] \notin NullTokens}
            IN /\ \A r \in rows \ others : ~csv_batch.columns[c].cells[r].some
               /\ (/\ others # {}
                   /\ \A r \in others : parse_i64_ok(BatchRecords[r][c]))
                     => csv_batch.columns[c].dtype = "Int64"

\* C27: every batch of one input gives a column the same dtype: two
\* successive batches of read_batch agree on the dtype of every column.
C27_OneDtypePerColumn ==
    [][(csv_batch.status = "Some" /\ csv_batch'.status = "Some") =>
          \A c \in 1..Len(csv_batch.columns) :
              csv_batch'.columns[c].dtype = csv_batch.columns[c].dtype]_vars

\* C30: a cell of a batch is null only if its field is missing from the
\* record or equal to an NA token.
C30_PresentValuesStayPresent ==
    csv_batch.status = "Some" =>
        \A c \in 1..Len(csv_batch.columns), r \in 1..csv_batch.rows :
            ~csv_batch.columns[c].cells[r].some
                => \/ c > Len(BatchRecords[r])
                   \/ BatchRecords[r][c] \in na_values

(***************************************************************************)
(* Properties of the batch aligner.                                        *)
(***************************************************************************)
\* the unified columns the include/exclude projection keeps, in unified order
KeptColumns ==
    SelectSeq(aligner.unified_schema,
              LAMBDA field : kept_by_projection(aligner, field))

\* C22: when align_batch succeeds the aligned batch has one column for each
\* unified column the projection keeps, in unified order, each of the dtype
\* of its unified column and of as many rows as the source batch.
C22_AlignedMatchesUnified ==
    aligned.status = "Ok" =>
        /\ Len(aligned.columns) = Len(KeptColumns)
        /\ \A i \in 1..Len(aligned.columns) :
              /\ aligned.columns[i].dtype = KeptColumns[i].data_type
              /\ Len(aligned.columns[i].cells) = source_batch.rows

\* C25: a unified column that is aligned from a source column of its own
\* dtype holds the values and the nulls of that source column, row for row.
C25_SameDtypePassesThrough ==
    aligned.status = "Ok" =>
        \A i \in 1..Len(aligned.columns) :
            LET source_idx == find_source_column(aligner, KeptColumns[i].name)
            IN (/\ source_idx # None
                /\ source_idx < Len(source_batch.columns)
                /\ source_batch.columns[source_idx + 1].dtype
                       = KeptColumns[i].data_type)
                  => aligned.columns[i].cells
                         = source_batch.columns[source_idx + 1].cells

(***************************************************************************)
(* Properties of the CSV output.                                           *)
(***************************************************************************)
\* C20: a CSV output that holds anything starts with a header record, the
\* header is written once, and it lists the column names of the inputs
\* (a, b, c for inputs whose header is a, b, c).
C20_HeaderIsColumnNames ==
    (cli.out_format = "Csv" /\ output.first_record # "none") =>
        /\ output.first_record = "header"
        /\ output.headers = 1
        /\ output.header_record = input_header

====
